---- MODULE Spec2Model ----
(***************************************************************************)
(* HistogramWindow of DeepFRET-GUI (widgets/histogram_window.py): the      *)
(* aggregation pass getHistogramData, the mixture fit fitGaussians and the *)
(* refresh refreshPlot, as a state machine over the window object, the     *)
(* session's traces, the widgets the window reads and writes, and the      *)
(* three axes of its canvas.                                               *)
(*                                                                         *)
(* E and S values are integers in percent (E = 50 stands for 0.5).         *)
(* An optional attribute is None (the empty tuple) or Some(v) == <<v>>.    *)
(***************************************************************************)
EXTENDS Integers, Sequences, FiniteSets

\* ------------------------------------------------------------------ bounds
NTraces == 2
NFrames == 3

\* --------------------------------------------------------- values and None
None == <<>>
Some(v) == <<v>>
IsSet(x) == x # None
Val(x) == x[1]

\* numpy.nan: a value outside the range of every intensity and ratio
NaN == 0 - 1000

Min2(a, b) == IF a <= b THEN a ELSE b
Max2(a, b) == IF a >= b THEN a ELSE b

RECURSIVE SumSeq(_)
SumSeq(s) == IF s = <<>> THEN 0 ELSE Head(s) + SumSeq(Tail(s))

\* np.concatenate(list of arrays).flatten()
RECURSIVE Concatenate(_)
Concatenate(parts) ==
    IF parts = <<>> THEN <<>> ELSE Head(parts) \o Concatenate(Tail(parts))

\* the elements of s whose 0-based index is in keep, in order
RECURSIVE TakeIdx(_, _, _)
TakeIdx(s, keep, i) ==
    IF i >= Len(s) THEN <<>>
    ELSE (IF i \in keep THEN <<s[i + 1]>> ELSE <<>>) \o TakeIdx(s, keep, i + 1)

\* ----------------------------------------------------- the session's traces
\* One frame of a trace holds the donor (DD), acceptor (DA) and
\* direct-excitation (AA) intensities; AA is NaN in every frame of a trace
\* recorded without the ALEX channel. first_bleach is None or a frame index,
\* blink_intervals a sequence of <<start, end>> index pairs.
Frame(dd, da, aa) == [DD |-> dd, DA |-> da, AA |-> aa]

\* a trace of NFrames frames: acceptor intensity 4 and 8 by turns
BaseFrames(aa) ==
    [i \in 1..NFrames |-> Frame(2, IF i % 2 = 1 THEN 4 ELSE 8, aa)]

Trace(frames, first_bleach, blink_intervals) ==
    [frames |-> frames, first_bleach |-> first_bleach,
     blink_intervals |-> blink_intervals, is_checked |-> FALSE]

\* the traces a session is loaded from: an ALEX trace, a trace without
\* stoichiometry channel, an ALEX trace bleached at once, and one that blinks
\* from its first frame on and bleaches in its last, which leaves it one frame
TraceKinds ==
    { Trace(BaseFrames(2), None, <<>>),
      Trace(BaseFrames(NaN), None, <<>>),
      Trace(BaseFrames(2), Some(0), <<>>),
      Trace(BaseFrames(2), Some(NFrames - 1), << <<0, NFrames - 2>> >>) }

TraceIds == 1..NTraces

\* ------------------------------------------------ lib.math (not under src/)
\* contains_nan(x)
contains_nan(x) == \E i \in 1..Len(x) : x[i] = NaN

\* correct_DA(intensities, alpha, delta) for one frame: the acceptor signal
\* with donor leakage (alpha) and direct excitation (delta) taken out
F_DA(fr, alpha, delta) ==
    IF fr.AA = NaN THEN fr.DA - alpha * fr.DD
    ELSE fr.DA - alpha * fr.DD - delta * fr.AA

\* E = corrected acceptor / (corrected acceptor + donor), NaN for 0/0
calc_E(fr, alpha, delta) ==
    LET f == F_DA(fr, alpha, delta) IN
    IF fr.DD + f <= 0 THEN NaN ELSE (100 * f) \div (fr.DD + f)

\* S = (gamma*DD + F_DA) / (gamma*DD + F_DA + AA/beta)
calc_S(fr, alpha, delta, beta, gamma) ==
    LET f == F_DA(fr, alpha, delta)
        num == beta * (gamma * fr.DD + f) IN
    IF fr.AA = NaN \/ num + fr.AA <= 0 THEN NaN
    ELSE (100 * num) \div (num + fr.AA)

\* the 0-based frame indices in [0, n) outside every blink interval [b0, b1);
\* interval ends beyond the trace are clipped
OutsideBlinks(n, blink_intervals) ==
    { i \in 0..(n - 1) :
        \A k \in 1..Len(blink_intervals) :
            ~(blink_intervals[k][1] <= i /\ i < blink_intervals[k][2]) }

\* exclude_blink_intervals(x, blink_intervals)
exclude_blink_intervals(x, blink_intervals) ==
    TakeIdx(x, OutsideBlinks(Len(x), blink_intervals), 0)

\* the frame at which drop_bleached_frames cuts a trace: the first bleaching
\* index or max_frames, whichever is more restrictive
CutFrame(n, first_bleach, max_frames) ==
    LET b == IF IsSet(first_bleach) THEN Min2(Val(first_bleach), n) ELSE n
        m == IF IsSet(max_frames) THEN Min2(Val(max_frames), n) ELSE n
    IN  Min2(b, m)

\* the frames before the cut and outside every blink interval
KeptFrames(frames, cut, blink_intervals) ==
    TakeIdx(SubSeq(frames, 1, cut), OutsideBlinks(cut, blink_intervals), 0)

\* the E and S of each frame kept
FramesES(kept, alpha, delta, beta, gamma) ==
    [E |-> [i \in 1..Len(kept) |-> calc_E(kept[i], alpha, delta)],
     S |-> [i \in 1..Len(kept) |-> calc_S(kept[i], alpha, delta, beta, gamma)]]

\* drop_bleached_frames(intensities, bleaches, alpha, delta, beta, gamma,
\* max_frames, blink_intervals) -> (E, S) of the frames kept
drop_bleached_frames(tr, alpha, delta, beta, gamma, max_frames) ==
    FramesES(KeptFrames(tr.frames,
                        CutFrame(Len(tr.frames), tr.first_bleach, max_frames),
                        tr.blink_intervals),
             alpha, delta, beta, gamma)

\* trim_ES(E, S): the pairs without NaN, pairing kept. A sample without
\* stoichiometry channel (every S is NaN) is trimmed on E alone and keeps its
\* NaN S, which is what the contains_nan test on S_un then sees.
trim_ES(E, S) ==
    LET n == Min2(Len(E), Len(S))
        noStoi == \A i \in 1..n : S[i] = NaN
        keep == { i \in 0..(n - 1) :
                    E[i + 1] # NaN /\ (noStoi \/ S[i + 1] # NaN) }
    IN  [E |-> TakeIdx(E, keep, 0), S |-> TakeIdx(S, keep, 0)]

\* beta_gamma_factor(E_app, S_app): a deterministic estimate from the two
\* population means (the regression itself is an external numeric routine)
beta_gamma_factor(E_app, S_app) ==
    [beta  |-> IF 2 * SumSeq(S_app) > 100 * Len(S_app) THEN 1 ELSE 2,
     gamma |-> IF 2 * SumSeq(E_app) < 100 * Len(E_app) THEN 2 ELSE 1]

\* --------------------------------------------------------------- the state
VARIABLES
    traces,     \* data.traces: trace id -> trace
    config,     \* getConfig: the alpha and delta factors
    win,        \* the HistogramWindow object's attributes
    histData,   \* data.histData
    ui,         \* the widgets the window reads and writes
    canvas,     \* what is drawn on the three axes
    ran,        \* what the last handler run did: locals, exception raised
    sliders     \* the values of the density inspector's four sliders

vars == <<traces, config, win, histData, ui, canvas, ran, sliders>>

\* getConfig(gvars.key_alphaFactor), getConfig(gvars.key_deltaFactor)
ConfigKinds == { [alphaFactor |-> 1, deltaFactor |-> 1] }

\* HistogramWindow.__init__
InitWin ==
    [E |-> None, E_un |-> None, S |-> None, S_un |-> None,
     DD |-> None, DA |-> None, corrs |-> None,
     alpha |-> None, delta |-> None, beta |-> None, gamma |-> None,
     gauss_params |-> None, best_k |-> None,
     n_samples |-> None, n_points |-> None, len |-> None]

NoFault == [stage |-> "none", kind |-> "none"]
ErrorKinds == {"AttributeError", "ValueError", "TypeError"}

\* the state a handler works on, with the exception it is raising (or "none")
\* what a handler run leaves on record: the locals of its aggregation pass,
\* the branch its fit took, and whether it refreshed the plot
NoAgg == [done |-> FALSE]
NoFit == [called |-> FALSE]
NoRefresh == [called |-> FALSE]

World == [traces |-> traces, config |-> config, win |-> win,
          histData |-> histData, ui |-> ui, canvas |-> canvas,
          exc |-> "none", raised |-> "none", stage |-> "none",
          agg |-> NoAgg, fit |-> NoFit, refresh |-> NoRefresh]

\* raise kind at stage: exc is the exception in flight, raised and stage
\* keep what was raised and where after an except clause has caught it
Raise(o, kind, stage) ==
    [o EXCEPT !.exc = kind, !.raised = kind, !.stage = stage]

\* ------------------------------------------------------- getHistogramData
\* checkedTraces = [trace for trace in self.data.traces.values()
\*                  if trace.is_checked]
RECURSIVE CheckedFrom(_, _)
CheckedFrom(trs, i) ==
    IF i > NTraces THEN <<>>
    ELSE (IF trs[i].is_checked THEN <<i>> ELSE <<>>) \o CheckedFrom(trs, i + 1)

checkedTraces(trs) == CheckedFrom(trs, 1)

\* the seven attributes set to None at the start of a pass
ResetHistogramData(w) ==
    [w EXCEPT !.E = None, !.S = None, !.DD = None, !.DA = None,
              !.corrs = None, !.E_un = None, !.S_un = None]

\* (variant: "if not end_frame", which takes index 0 for no bleaching)
EndFrame_Falsy(tr) ==
    IF tr.first_bleach = None \/ tr.first_bleach = Some(0)
    THEN Len(tr.frames) ELSE Val(tr.first_bleach)

\* end_frame = trace.first_bleach; if end_frame is None: end_frame = len(I_DD)
EndFrame(tr) ==
    IF tr.first_bleach = None THEN Len(tr.frames) ELSE Val(tr.first_bleach)

\* I_DD[:end_frame] and I_DA[:end_frame] without the blink intervals
TraceDD(tr) ==
    LET cut == Min2(EndFrame(tr), Len(tr.frames))
        ch == [i \in 1..cut |-> tr.frames[i].DD]
    IN  exclude_blink_intervals(ch, tr.blink_intervals)

TraceDA(tr) ==
    LET cut == Min2(EndFrame(tr), Len(tr.frames))
        ch == [i \in 1..cut |-> tr.frames[i].DA]
    IN  exclude_blink_intervals(ch, tr.blink_intervals)

\* the pooled per-trace E (or S) of the traces ids, in trace order
PoolE(trs, ids, alpha, delta, beta, gamma, mf) ==
    Concatenate([k \in 1..Len(ids) |->
        drop_bleached_frames(trs[ids[k]], alpha, delta, beta, gamma, mf).E])

PoolS(trs, ids, alpha, delta, beta, gamma, mf) ==
    Concatenate([k \in 1..Len(ids) |->
        drop_bleached_frames(trs[ids[k]], alpha, delta, beta, gamma, mf).S])

\* (variant: the count accumulated in the loop is never replaced by the
\* trimmed length)
NPoints_Accumulated(E_un, lengths) == SumSeq(lengths)

\* self.n_points += _len in the loop, then self.n_points = len(self.E_un)
NPoints(E_un, lengths) == Len(E_un)

\* (variant: every loaded trace is counted, checked or not)
NSamples_Loaded(trs, ids) == Len([i \in TraceIds |-> trs[i]])

\* self.n_samples = self.len = len(checkedTraces)
NSamples(trs, ids) == Len(ids)

\* (variant: the first loop takes the factors the last pass left)
FirstPassFactors_CarriedOver(w) ==
    [beta |-> IF IsSet(w.beta) THEN Val(w.beta) ELSE 1,
     gamma |-> IF IsSet(w.gamma) THEN Val(w.gamma) ELSE 1]

\* the first loop calls drop_bleached_frames without beta and gamma, which
\* then take their defaults
FirstPassFactors(w) == [beta |-> 1, gamma |-> 1]

\* (variant: no fallback E = E_un when the stoichiometry is missing)
EnsembleCorrection_NoFallback(w, trs, ids, alpha, delta, mf) ==
    IF ~contains_nan(Val(w.S_un)) /\ Len(Val(w.E_un)) > 0
    THEN LET bg == beta_gamma_factor(Val(w.E_un), Val(w.S_un))
             ES == trim_ES(
                     PoolE(trs, ids, alpha, delta, bg.beta, bg.gamma, mf),
                     PoolS(trs, ids, alpha, delta, bg.beta, bg.gamma, mf))
         IN  [win |-> [w EXCEPT !.E = Some(ES.E), !.S = Some(ES.S),
                                !.beta = Some(bg.beta),
                                !.gamma = Some(bg.gamma)],
              invoked |-> TRUE]
    ELSE [win |-> w, invoked |-> FALSE]

\* (variant: the estimator runs on an empty sample too)
EnsembleCorrection_NoLenCheck(w, trs, ids, alpha, delta, mf) ==
    IF ~contains_nan(Val(w.S_un))
    THEN LET bg == beta_gamma_factor(Val(w.E_un), Val(w.S_un))
             ES == trim_ES(
                     PoolE(trs, ids, alpha, delta, bg.beta, bg.gamma, mf),
                     PoolS(trs, ids, alpha, delta, bg.beta, bg.gamma, mf))
         IN  [win |-> [w EXCEPT !.E = Some(ES.E), !.S = Some(ES.S),
                                !.beta = Some(bg.beta),
                                !.gamma = Some(bg.gamma)],
              invoked |-> TRUE]
    ELSE [win |-> [w EXCEPT !.E = w.E_un], invoked |-> FALSE]

\* (variant: the corrected S is stored as pooled, without the trim)
EnsembleCorrection_UntrimmedS(w, trs, ids, alpha, delta, mf) ==
    IF ~contains_nan(Val(w.S_un))
    THEN IF Len(Val(w.E_un)) > 0
         THEN LET bg == beta_gamma_factor(Val(w.E_un), Val(w.S_un))
                  S_real == PoolS(trs, ids, alpha, delta, bg.beta, bg.gamma, mf)
                  ES == trim_ES(
                          PoolE(trs, ids, alpha, delta, bg.beta, bg.gamma, mf),
                          S_real)
              IN  [win |-> [w EXCEPT !.E = Some(ES.E), !.S = Some(S_real),
                                     !.beta = Some(bg.beta),
                                     !.gamma = Some(bg.gamma)],
                   invoked |-> TRUE]
         ELSE [win |-> w, invoked |-> FALSE]
    ELSE [win |-> [w EXCEPT !.E = w.E_un], invoked |-> FALSE]

\* the corrected sample and the factors of the pass stored
StoreCorrected(w, bg, ES) ==
    [win |-> [w EXCEPT !.E = Some(ES.E), !.S = Some(ES.S),
                       !.beta = Some(bg.beta), !.gamma = Some(bg.gamma)],
     invoked |-> TRUE]

\* the second loop over the checked traces, with the factors bg, and the trim
Recalculate(w, trs, ids, alpha, delta, bg, mf) ==
    StoreCorrected(w, bg,
        trim_ES(PoolE(trs, ids, alpha, delta, bg.beta, bg.gamma, mf),
                PoolS(trs, ids, alpha, delta, bg.beta, bg.gamma, mf)))

\* "Skip ensemble correction if stoichiometry is missing": the attributes
\* after the correction step, given the uncorrected sample already stored,
\* and whether beta_gamma_factor was invoked
EnsembleCorrection(w, trs, ids, alpha, delta, mf) ==
    IF ~contains_nan(Val(w.S_un))
    THEN IF Len(Val(w.E_un)) > 0
         THEN Recalculate(w, trs, ids, alpha, delta,
                          beta_gamma_factor(Val(w.E_un), Val(w.S_un)), mf)
         ELSE [win |-> w, invoked |-> FALSE]
    ELSE [win |-> [w EXCEPT !.E = w.E_un], invoked |-> FALSE]

\* the counters set after the reset
PassStart(w, trs, ids) ==
    [ResetHistogramData(w) EXCEPT !.len = Some(Len(ids)),
                                  !.n_samples = Some(NSamples(trs, ids)),
                                  !.n_points = Some(0)]

\* the loop over the checked traces: per trace the length of its E and its
\* DD and DA, and the pooled E_app and S_app
Loop(trs, ids, alpha, delta, f1, mf) ==
    [lengths |-> [k \in 1..Len(ids) |->
                    Len(drop_bleached_frames(trs[ids[k]], alpha, delta,
                                             f1.beta, f1.gamma, mf).E)],
     DD |-> [k \in 1..Len(ids) |-> TraceDD(trs[ids[k]])],
     DA |-> [k \in 1..Len(ids) |-> TraceDA(trs[ids[k]])],
     E_app |-> PoolE(trs, ids, alpha, delta, f1.beta, f1.gamma, mf),
     S_app |-> PoolS(trs, ids, alpha, delta, f1.beta, f1.gamma, mf)]

\* the uncorrected sample un = trim_ES(E_app, S_app) stored with DD and DA
StoreUncorrected(w1, lp, un) ==
    [w1 EXCEPT !.DD = Some(Concatenate(lp.DD)),
               !.DA = Some(Concatenate(lp.DA)),
               !.E_un = Some(un.E), !.S_un = Some(un.S),
               !.n_points = Some(NPoints(un.E, lp.lengths))]

\* self.data.histData.n_samples, .n_points
MirrorCounts(h, w2) ==
    [h EXCEPT !.n_samples = w2.n_samples, !.n_points = w2.n_points]

\* the end of the pass: the estimator's fault, if it was invoked, or the
\* corrected attributes with alpha and delta
PassEnd(o, max_frames, ids, lp, w2, ec, fault) ==
    IF fault.stage = "estimator" /\ ec.invoked
    THEN Raise([o EXCEPT !.win = w2,
                         !.histData = MirrorCounts(o.histData, w2)],
               fault.kind, "estimator")
    ELSE [o EXCEPT !.win = [ec.win EXCEPT
                               !.alpha = Some(o.config.alphaFactor),
                               !.delta = Some(o.config.deltaFactor)],
                   !.histData = MirrorCounts(o.histData, w2),
                   !.agg = [done |-> TRUE, max_frames |-> max_frames,
                            checkedTraces |-> ids, lengths |-> lp.lengths,
                            DD |-> lp.DD, DA |-> lp.DA,
                            invoked |-> ec.invoked]]

\* the correction step on the uncorrected attributes w2
PassCorrect(o, max_frames, ids, lp, w2, fault) ==
    PassEnd(o, max_frames, ids, lp, w2,
            EnsembleCorrection(w2, o.traces, ids, o.config.alphaFactor,
                               o.config.deltaFactor, max_frames),
            fault)

\* the loop's fault, if there is a checked trace, or the loop's result lp
\* trimmed and stored
PassLoop(o, max_frames, ids, lp, fault) ==
    IF fault.stage = "loop" /\ ids # <<>>
    THEN Raise([o EXCEPT !.win = PassStart(o.win, o.traces, ids)],
               fault.kind, "loop")
    ELSE PassCorrect(o, max_frames, ids, lp,
                     StoreUncorrected(PassStart(o.win, o.traces, ids), lp,
                                      trim_ES(lp.E_app, lp.S_app)),
                     fault)

\* the pass over the checked traces ids, at most max_frames frames of each
Pass(o, max_frames, ids, fault) ==
    PassLoop(o, max_frames, ids,
             Loop(o.traces, ids, o.config.alphaFactor, o.config.deltaFactor,
                  FirstPassFactors(o.win), max_frames),
             fault)

\* getHistogramData(n_first_frames), with the value framesSpinBox holds and
\* the fault (if any) a collaborator raises during the pass: in the loop over
\* the checked traces, or in the beta/gamma estimator.
getHistogramData(o, n_first_frames, framesSpinBox, fault) ==
    IF n_first_frames \notin {"all", "spinbox"}
    THEN Raise(o, "ValueError", "argument")
    ELSE Pass(o, IF n_first_frames = "all" THEN None ELSE Some(framesSpinBox),
              checkedTraces(o.traces), fault)

\* ------------------------------------------------------------ fitGaussians
\* the number of distinct values of X
Distinct(X) == Cardinality({X[i] : i \in 1..Len(X)})

\* lib.math.fit_gaussian_mixture(X, min_n_components, max_n_components):
\* the component count the criterion picks in [min, max] (the smallest count
\* that separates the values of X) and one (mean, sigma, weight) per component
fit_gaussian_mixture(X, min_n, max_n) ==
    LET k == Max2(min_n, Min2(max_n, Distinct(X)))
    IN  [n_components |-> k,
         params |-> [i \in 1..k |-> <<i, 1, 100 \div k>>]]

\* (1, 6) if states == "auto" else self.ui.gaussianSpinBox.value()
AutoMin == 1
AutoMax == 6

\* the number of points of an optional sequence, None when it is unset
Points(E) == IF IsSet(E) THEN Some(Len(Val(E))) ELSE None

\* (variant: one point is taken to be enough)
CanFit_NonEmpty(E) == IsSet(E) /\ Len(Val(E)) >= 1

\* E is not None and len(E) >= 2
CanFit(E) == IsSet(E) /\ Len(Val(E)) >= 2

\* --------------------------------------------------------------- plotting
\* An axis holds the set of artists drawn on it since it was last cleared.
Cleared == {}

Src(corrected) == IF corrected THEN "corr" ELSE "un"

\* returnInspectorValues(): the two switches of the inspector tuple that
\* decide what plotCenter draws
InspectorKinds == { [show_density |-> TRUE, overlay_pts |-> TRUE] }

\* plotTop(corrected)
plotTop(o, corrected, fault) ==
    LET E == IF corrected THEN o.win.E ELSE o.win.E_un
        hist == IF IsSet(E) THEN {<<"hist", Src(corrected)>>}
                ELSE o.canvas.ax_top
        gauss == IF IsSet(o.win.gauss_params) THEN {<<"gauss", "fit">>} ELSE {}
    IN  IF fault.stage = "plotTop" /\ IsSet(E)
        THEN Raise([o EXCEPT !.canvas.ax_top = Cleared], fault.kind, "plotTop")
        ELSE [o EXCEPT !.canvas.ax_top = hist \cup gauss]

\* plotCenter(corrected, params)
plotCenter(o, corrected, params, fault) ==
    LET S == IF corrected THEN o.win.S ELSE o.win.S_un
        text == {<<"text", "counts">>}
        factors == {o.win.alpha, o.win.delta, o.win.beta, o.win.gamma}
        density == IF params.show_density
                   THEN {<<"contour", Src(corrected)>>} ELSE {}
        points == IF params.overlay_pts
                  THEN {<<"scatter", Src(corrected)>>} ELSE {}
    IN  IF None \in factors
        THEN \* "{:.2f}".format(None)
             Raise([o EXCEPT !.canvas.ax_ctr = text], "TypeError", "plotCenter")
        ELSE IF ~IsSet(S)
        THEN [o EXCEPT !.canvas.ax_ctr = text \cup {<<"text", "factors">>}]
        ELSE IF fault.stage = "plotCenter" /\ params.show_density
        THEN Raise([o EXCEPT !.canvas.ax_ctr = text \cup {<<"text", "factors">>}],
                   fault.kind, "plotCenter")
        ELSE [o EXCEPT !.canvas.ax_ctr =
                 text \cup {<<"text", "factors">>} \cup density \cup points
                      \cup {<<"hline", "half">>}]

\* plotRight(corrected)
plotRight(o, corrected, fault) ==
    LET S == IF corrected THEN o.win.S ELSE o.win.S_un
    IN  IF ~IsSet(S) THEN o
        ELSE IF fault.stage = "plotRight"
        THEN Raise([o EXCEPT !.canvas.ax_rgt = Cleared], fault.kind, "plotRight")
        ELSE [o EXCEPT !.canvas.ax_rgt = {<<"hist", Src(corrected)>>}]

\* plotAll(corrected)
\* plotAll after plotCenter: plotRight unless plotCenter raised
plotAll_AfterCenter(o2, corrected, fault) ==
    IF o2.exc # "none" THEN o2 ELSE plotRight(o2, corrected, fault)

\* plotAll after plotTop: "if self.S is not None" guards the other two axes
plotAll_AfterTop(o1, corrected, params, fault) ==
    IF o1.exc # "none" THEN o1
    ELSE IF ~IsSet(o1.win.S) THEN o1
    ELSE plotAll_AfterCenter(plotCenter(o1, corrected, params, fault),
                             corrected, fault)

\* plotAll(corrected)
plotAll(o, corrected, params, fault) ==
    plotAll_AfterTop(plotTop(o, corrected, fault), corrected, params, fault)

\* (variant: except ValueError alone)
Caught_ValueErrorOnly(kind) == kind = "ValueError"

\* except (AttributeError, ValueError): pass
Caught(kind) == kind \in {"AttributeError", "ValueError"}

\* for ax in self.canvas.axes: ax.clear()
ClearAxes(o) ==
    [o EXCEPT !.canvas = [ax_top |-> Cleared, ax_ctr |-> Cleared,
                          ax_rgt |-> Cleared]]

\* (variant: the box is left as it is when S is unset)
PlotOnto_KeepChecked(o2, corrected, params, fault) ==
    IF IsSet(o2.win.E) THEN plotAll(o2, corrected, params, fault) ELSE o2

\* "if self.E is not None": with S unset the box is unchecked and the
\* uncorrected sample plotted, else plotAll(corrected)
PlotOnto(o2, corrected, params, fault) ==
    IF IsSet(o2.win.E)
    THEN IF ~IsSet(o2.win.S)
         THEN plotAll([o2 EXCEPT !.ui.applyCorrectionsCheckBox = FALSE],
                      FALSE, params, fault)
         ELSE plotAll(o2, corrected, params, fault)
    ELSE o2

\* (variant: the axes are cleared before the aggregation pass)
RefreshBody_ClearFirst(o, params, fault) ==
    PlotOnto(getHistogramData(ClearAxes(o), "all", 1, fault),
             o.ui.applyCorrectionsCheckBox, params, fault)

\* the try block after the aggregation pass: the axes cleared, then plotted
RefreshAfterPass(o1, corrected, params, fault) ==
    IF o1.exc # "none" THEN o1
    ELSE PlotOnto(ClearAxes(o1), corrected, params, fault)

\* the body of refreshPlot's try block
RefreshBody(o, params, fault) ==
    RefreshAfterPass(getHistogramData(o, "all", 1, fault),
                     o.ui.applyCorrectionsCheckBox, params, fault)

\* the except clause: an exception of a caught kind ends here; corrected is
\* what the apply-corrections box held when refreshPlot was entered
Except(o1, corrected) ==
    [o1 EXCEPT !.refresh = [called |-> TRUE,
                            swallowed |-> IF Caught(o1.exc) THEN o1.exc
                                          ELSE "none",
                            corrected |-> corrected],
               !.exc = IF Caught(o1.exc) THEN "none" ELSE o1.exc]

\* plotDefaultElements() and canvas.draw(), reached unless an exception is
\* still in flight
RefreshFinal(o2, fault) ==
    IF o2.exc # "none" THEN o2
    ELSE IF fault.stage = "final"
    THEN Raise(o2, fault.kind, "final")
    ELSE o2

\* refreshPlot(autofit): the try block, the except clause, and the two calls
\* after it (plotDefaultElements, canvas.draw), which nothing guards
refreshPlot(o, params, fault) ==
    RefreshFinal(Except(RefreshBody(o, params, fault),
                        o.ui.applyCorrectionsCheckBox),
                 fault)

\* fitGaussians(states), with the refresh it ends with. setValue(best_k) on a
\* spin box holding another value emits valueChanged, whose slot is
\* fitGaussians again: it fits with exactly best_k components and refreshes.
fitGaussians(o, states, params, fault) ==
    LET corrected == o.ui.applyCorrectionsCheckBox
        E == IF corrected THEN o.win.E ELSE o.win.E_un
    IN  IF CanFit(E)
        THEN LET lo == IF states = "auto" THEN AutoMin ELSE o.ui.gaussianSpinBox
                 hi == IF states = "auto" THEN AutoMax ELSE o.ui.gaussianSpinBox
                 m == fit_gaussian_mixture(Val(E), lo, hi)
                 o1 == [o EXCEPT !.win.gauss_params = Some(m.params),
                                 !.win.best_k = Some(m.n_components),
                                 !.ui.gaussianSpinBox = m.n_components,
                                 !.fit = [called |-> TRUE, fitted |-> TRUE,
                                          auto |-> states = "auto",
                                          selected |-> Points(E)]]
                 o2 == IF m.n_components # o.ui.gaussianSpinBox
                       THEN refreshPlot(o1, params, NoFault)
                       ELSE o1
             IN  refreshPlot(o2, params, fault)
        ELSE refreshPlot(
                 [o EXCEPT !.win.gauss_params = None, !.win.best_k = None,
                           !.fit = [called |-> TRUE, fitted |-> FALSE,
                                    auto |-> states = "auto",
                                    selected |-> Points(E)]],
                 params, fault)

\* ----------------------------------------------------------------- actions
\* Ui_DensityWindowInspector.setupUi: the range of each slider
SmoothingMin == 1
SmoothingMax == 20
ResolutionMin == 10
ResolutionMax == 100
ColorMin == 1
ColorMax == 20
PointAlphaMin == 0
PointAlphaMax == 20

\* setupUi: setProperty("value", ...) of each slider
InitSliders ==
    [smoothingSlider |-> 10, resolutionSlider |-> 50,
     colorSlider |-> 3, pointAlphaSlider |-> 10]

\* (variant: a slider takes whatever position it is asked to take)
SliderValue_Unbounded(lo, hi, v) == v

\* the value a slider of range [lo, hi] holds after it was moved to v: a
\* QSlider keeps its value within its minimum and maximum
SliderValue(lo, hi, v) == Max2(lo, Min2(hi, v))

\* returnInspectorValues(): the numeric fields of the parameter tuple are the
\* raw slider values, the two switches those of the check boxes
returnInspectorValues(sl, sw) ==
    [bandwidth |-> sl.smoothingSlider, resolution |-> sl.resolutionSlider,
     n_colors |-> sl.colorSlider, overlay_pts |-> sw.overlay_pts,
     pts_alpha |-> sl.pointAlphaSlider, show_density |-> sw.show_density]

\* no handler of the window has run since the state last changed
Idle == [exc |-> "none", raised |-> "none", stage |-> "none",
         agg |-> NoAgg, fit |-> NoFit, refresh |-> NoRefresh, again |-> FALSE]

\* the values the user sets gaussianSpinBox to
SpinValues == {1, 2}

Init ==
    /\ traces \in [TraceIds -> TraceKinds]
    /\ config \in ConfigKinds
    /\ win = InitWin
    /\ histData = [n_samples |-> None, n_points |-> None]
    /\ ui \in [applyCorrectionsCheckBox : BOOLEAN, gaussianSpinBox : {1}]
    /\ canvas = [ax_top |-> Cleared, ax_ctr |-> Cleared, ax_rgt |-> Cleared]
    /\ ran = Idle
    /\ sliders = InitSliders

\* the handler's result becomes the next state; again records that this run
\* and the one before it both completed a pass over the same traces, with
\* the same configuration and frame limit
Becomes(o) ==
    /\ traces' = o.traces
    /\ config' = o.config
    /\ win' = o.win
    /\ histData' = o.histData
    /\ ui' = o.ui
    /\ canvas' = o.canvas
    /\ sliders' = sliders
    /\ ran' = [exc |-> o.exc, raised |-> o.raised, stage |-> o.stage,
               agg |-> o.agg, fit |-> o.fit, refresh |-> o.refresh,
               again |-> /\ ran.agg.done /\ o.agg.done
                         /\ ran.agg.max_frames = o.agg.max_frames
                         /\ traces = o.traces /\ config = o.config]

\* the faults a collaborator can raise during a refresh, by the stage reached
Faults == {NoFault} \cup
    [stage : {"loop", "estimator", "plotTop", "plotCenter", "final"},
     kind : ErrorKinds]

\* the calls of getHistogramData: n_first_frames and, where it is read, the
\* value of framesSpinBox
AggCalls == {<<"all", 1>>, <<"frames", 1>>, <<"spinbox", NFrames - 1>>}

\* a direct call of getHistogramData
GetHistogramData ==
    \E c \in AggCalls :
        Becomes(getHistogramData(World, c[1], c[2], NoFault))

\* exportHistogramData: a pass, then the file written from its result when
\* the dialog returned a path (the file is no part of the state)
ExportHistogramData ==
    \E path \in {"", "E_S_Histogram"} :
        Becomes(getHistogramData(World, "all", 1, NoFault))

\* refreshPlot
RefreshPlot ==
    \E p \in InspectorKinds :
        Becomes(refreshPlot(World, p, NoFault))

\* savePlot: the figure saved, then refreshPlot
SavePlot ==
    \E p \in InspectorKinds :
        Becomes(refreshPlot(World, p, NoFault))

\* refreshPlot while a collaborator raises
RefreshPlotFault ==
    \E p \in InspectorKinds, f \in Faults :
        Becomes(refreshPlot(World, p, f))

\* gaussianAutoButton.clicked: fitGaussians("auto"), then refreshPlot(True)
GaussianAutoButtonClicked ==
    \E p \in InspectorKinds :
        Becomes(refreshPlot(fitGaussians(World, "auto", p, NoFault), p, NoFault))

\* gaussianSpinBox.valueChanged: the user sets another value
GaussianSpinBoxChanged ==
    \E v \in SpinValues, p \in InspectorKinds :
        /\ v # ui.gaussianSpinBox
        /\ Becomes(fitGaussians([World EXCEPT !.ui.gaussianSpinBox = v],
                                "spinbox", p, NoFault))

\* applyCorrectionsCheckBox.clicked: the box toggles, then fitGaussians
ApplyCorrectionsClicked ==
    \E p \in InspectorKinds :
        Becomes(fitGaussians(
            [World EXCEPT !.ui.applyCorrectionsCheckBox =
                              ~ui.applyCorrectionsCheckBox],
            "clicked", p, NoFault))

\* checkAll / unCheckAll: every trace's flag, then a refresh if visible
SetAll(o, b) == [o EXCEPT !.traces = [i \in TraceIds |->
                                        [o.traces[i] EXCEPT !.is_checked = b]]]

CheckAll ==
    \E visible \in BOOLEAN, p \in InspectorKinds :
        Becomes(IF visible THEN refreshPlot(SetAll(World, TRUE), p, NoFault)
                ELSE SetAll(World, TRUE))

UnCheckAll ==
    \E visible \in BOOLEAN, p \in InspectorKinds :
        Becomes(IF visible THEN refreshPlot(SetAll(World, FALSE), p, NoFault)
                ELSE SetAll(World, FALSE))

\* the user checks or unchecks one trace in the trace list
SetChecked ==
    \E i \in TraceIds :
        /\ traces' = [traces EXCEPT ![i].is_checked = ~traces[i].is_checked]
        /\ ran' = Idle
        /\ UNCHANGED <<config, win, histData, ui, canvas, sliders>>

\* the handlers, with collaborators that do not raise
Next ==
    \/ GetHistogramData
    \/ ExportHistogramData
    \/ RefreshPlot
    \/ SavePlot
    \/ GaussianAutoButtonClicked
    \/ GaussianSpinBoxChanged
    \/ ApplyCorrectionsClicked
    \/ CheckAll
    \/ UnCheckAll
    \/ SetChecked

Spec == Init /\ [][Next]_vars

\* refreshes during which a collaborator may raise, between changes of the
\* checked traces and of the apply-corrections box
NextFault ==
    \/ RefreshPlotFault
    \/ ApplyCorrectionsClicked
    \/ SetChecked

FaultSpec == Init /\ [][NextFault]_vars

\* the positions the user moves a slider to (drag, keys, wheel), some of
\* them beyond either end of the slider
Positions == {0 - 1, 0, 1, 10, 20, 50, 100, 101}

SmoothingSliderMoved ==
    \E v \in Positions :
        /\ sliders' = [sliders EXCEPT !.smoothingSlider =
                           SliderValue(SmoothingMin, SmoothingMax, v)]
        /\ ran' = Idle
        /\ UNCHANGED <<traces, config, win, histData, ui, canvas>>

ResolutionSliderMoved ==
    \E v \in Positions :
        /\ sliders' = [sliders EXCEPT !.resolutionSlider =
                           SliderValue(ResolutionMin, ResolutionMax, v)]
        /\ ran' = Idle
        /\ UNCHANGED <<traces, config, win, histData, ui, canvas>>

ColorSliderMoved ==
    \E v \in Positions :
        /\ sliders' = [sliders EXCEPT !.colorSlider =
                           SliderValue(ColorMin, ColorMax, v)]
        /\ ran' = Idle
        /\ UNCHANGED <<traces, config, win, histData, ui, canvas>>

PointAlphaSliderMoved ==
    \E v \in Positions :
        /\ sliders' = [sliders EXCEPT !.pointAlphaSlider =
                           SliderValue(PointAlphaMin, PointAlphaMax, v)]
        /\ ran' = Idle
        /\ UNCHANGED <<traces, config, win, histData, ui, canvas>>

\* the user at the density inspector
NextInspector ==
    \/ SmoothingSliderMoved
    \/ ResolutionSliderMoved
    \/ ColorSliderMoved
    \/ PointAlphaSliderMoved

InspectorSpec == Init /\ [][NextInspector]_vars

\* ------------------------------------------------------------------ claims
\* the traces checked now, as a set and in trace order
CheckedSet == {i \in TraceIds : traces[i].is_checked}
CheckedSeq == SelectSeq([i \in TraceIds |-> i], LAMBDA i : traces[i].is_checked)

\* the per-frame E and S of the traces ids, pooled with the default factors
\* and the frame limit of the last pass
PooledE(ids) == PoolE(traces, ids, config.alphaFactor, config.deltaFactor,
                      1, 1, ran.agg.max_frames)
PooledS(ids) == PoolS(traces, ids, config.alphaFactor, config.deltaFactor,
                      1, 1, ran.agg.max_frames)

\* every pooled S value of the checked traces is NaN
NoStoichiometry ==
    \A k \in 1..Len(PooledS(CheckedSeq)) : PooledS(CheckedSeq)[k] = NaN

\* C1: after a completed getHistogramData call n_samples is the number of
\* checked traces, n_points is the length of E_un, which is the trimmed
\* pooled sample, and data.histData holds the same two counts.
C1_CountsMatchSample ==
    ran.agg.done =>
        /\ win.n_samples = Some(Cardinality(CheckedSet))
        /\ win.n_points = Some(Len(Val(win.E_un)))
        /\ win.E_un = Some(trim_ES(PooledE(CheckedSeq), PooledS(CheckedSeq)).E)
        /\ histData.n_samples = win.n_samples
        /\ histData.n_points = win.n_points

\* two checked traces of which the trim dropped frames
C1_Witness ==
    /\ ran.agg.done
    /\ Cardinality(CheckedSet) = 2
    /\ Val(win.n_points) > 0
    /\ Val(win.n_points) < SumSeq(ran.agg.lengths)

\* C2 as stated: without stoichiometry channel a pass skips the correction,
\* leaves E and S unset, and E_un holds the pooled E values.
C2_Original ==
    (ran.agg.done /\ NoStoichiometry) =>
        /\ ~ran.agg.invoked
        /\ win.E = None
        /\ win.S = None
        /\ win.E_un = Some(PooledE(CheckedSeq))

\* C2 (amended): without stoichiometry channel a pass skips the correction,
\* leaves S unset, E_un holds the pooled E values, and E is set to E_un;
\* E stays unset only when no frame was pooled.
C2_FallbackWithoutStoichiometry ==
    (ran.agg.done /\ NoStoichiometry) =>
        /\ ~ran.agg.invoked
        /\ win.S = None
        /\ win.E_un = Some(PooledE(CheckedSeq))
        /\ (PooledE(CheckedSeq) # <<>> => win.E = win.E_un)
        /\ (PooledE(CheckedSeq) = <<>> => win.E = None)

C2_Witness ==
    /\ ran.agg.done
    /\ NoStoichiometry
    /\ Len(PooledE(CheckedSeq)) = NFrames
    /\ win.E = win.E_un
    /\ win.S = None

\* C3: after a completed pass S is set only if S_un holds no NaN and E_un
\* has a point; if S_un holds a NaN the estimator is not invoked, S is unset
\* and E is E_un.
C3_CorrectedOnlyWithStoichiometry ==
    ran.agg.done =>
        /\ (IsSet(win.S) =>
               ~contains_nan(Val(win.S_un)) /\ Len(Val(win.E_un)) >= 1)
        /\ (contains_nan(Val(win.S_un)) =>
               ~ran.agg.invoked /\ win.S = None /\ win.E = win.E_un)

C3_Witness ==
    /\ ran.agg.done
    /\ contains_nan(Val(win.S_un))
    /\ win.E = win.E_un
    /\ win.S = None

\* C4 as stated: beta and gamma are not carried over: after a pass that skips
\* the correction they are unset, after a pass that performs it they are the
\* estimate from that pass's E_un and S_un.
C4_Original ==
    ran.agg.done =>
        IF ran.agg.invoked
        THEN LET bg == beta_gamma_factor(Val(win.E_un), Val(win.S_un))
             IN  win.beta = Some(bg.beta) /\ win.gamma = Some(bg.gamma)
        ELSE win.beta = None /\ win.gamma = None

\* C5 as stated: E_un and S_un have equal length, and E is set exactly when
\* S is set, with the same length.
C5_Original ==
    ran.agg.done =>
        /\ Len(Val(win.E_un)) = Len(Val(win.S_un))
        /\ (IsSet(win.E) <=> IsSet(win.S))
        /\ (IsSet(win.S) => Len(Val(win.E)) = Len(Val(win.S)))

\* C5 (amended): E_un and S_un have equal length; whenever S is set, E is set
\* with the same length; E is set without S exactly as the fallback E = E_un
\* of a sample whose S_un holds a NaN.
C5_ParallelSequences ==
    ran.agg.done =>
        /\ Len(Val(win.E_un)) = Len(Val(win.S_un))
        /\ (IsSet(win.S) =>
               IsSet(win.E) /\ Len(Val(win.E)) = Len(Val(win.S)))
        /\ (IsSet(win.E) /\ ~IsSet(win.S) =>
               win.E = win.E_un /\ contains_nan(Val(win.S_un)))

C5_Witness ==
    /\ ran.agg.done
    /\ IsSet(win.E)
    /\ ~IsSet(win.S)
    /\ Len(Val(win.E_un)) > 0

\* C6 as stated: refreshPlot returns normally whatever is raised during it.
C6_Original == ran.refresh.called => ran.exc = "none"

\* C6 (amended): refreshPlot returns normally when an AttributeError or a
\* ValueError is raised inside its try block; an error of another kind, or
\* one raised by the two calls after the try block, reaches the caller.
C6_SwallowsCaughtKinds ==
    ran.refresh.called =>
        /\ (ran.raised \in {"AttributeError", "ValueError"}
              /\ ran.stage # "final" =>
               ran.exc = "none" /\ ran.refresh.swallowed = ran.raised)
        /\ (ran.raised \notin {"none", "AttributeError", "ValueError"} =>
               ran.exc = ran.raised)
        /\ (ran.stage = "final" => ran.exc = ran.raised)
        /\ (ran.raised = "none" => ran.exc = "none")

C6_Witness ==
    /\ ran.refresh.called
    /\ ran.raised = "AttributeError"
    /\ ran.stage = "loop"
    /\ ran.exc = "none"

\* the stages of a refresh before and after the axes are cleared
AggStages == {"loop", "estimator"}
PlotStages == {"plotTop", "plotCenter"}

\* C7 as stated: an AttributeError or ValueError raised at any point of
\* refreshPlot is swallowed and the axes keep what they showed before.
C7_Original ==
    [][ (ran'.refresh.called /\ ran'.raised \in {"AttributeError", "ValueError"})
          => (ran'.exc = "none" /\ canvas' = canvas) ]_vars

\* C7 (amended): an AttributeError or ValueError raised inside the try block
\* is swallowed; raised during the aggregation pass it leaves the axes as
\* they were, raised during plotting it leaves them cleared or partly drawn.
C7_SwallowedRefreshAxes ==
    [][ (/\ ran'.refresh.called
         /\ ran'.raised \in {"AttributeError", "ValueError"}
         /\ ran'.stage # "final")
          => /\ ran'.exc = "none"
             /\ (ran'.stage \in AggStages => canvas' = canvas)
             /\ (ran'.stage \in PlotStages =>
                    /\ canvas'.ax_rgt = Cleared
                    /\ <<"hline", "half">> \notin canvas'.ax_ctr) ]_vars

\* an error swallowed during the pass, with the earlier histogram kept
C7_Witness ==
    /\ ran.refresh.called
    /\ ran.raised \in {"AttributeError", "ValueError"}
    /\ ran.stage \in AggStages
    /\ canvas.ax_top # Cleared
    /\ canvas.ax_rgt # Cleared

\* what a pass leaves in the window
AggResult ==
    <<win.E_un, win.S_un, win.E, win.S, win.n_samples, win.n_points,
      win.beta, win.gamma>>

\* C8: a pass that follows a pass, with the traces, the configuration and
\* the frame limit unchanged, leaves E_un, S_un, E, S, n_samples, n_points,
\* beta and gamma as they were.
C8_AggregationIdempotent ==
    [][ (/\ ran.agg.done /\ ran'.agg.done
         /\ ran'.agg.max_frames = ran.agg.max_frames
         /\ traces' = traces /\ config' = config)
          => AggResult' = AggResult ]_vars

\* a second pass in a row that performed the correction
C8_Witness == ran.again /\ ran.agg.invoked /\ IsSet(win.S)

\* C9: fitGaussians on a selected E that is unset or has fewer than 2 points
\* runs no fit, unsets gauss_params and best_k, raises nothing and refreshes
\* the plot, in "auto" mode and in spin-box mode.
C9_NoFitBelowTwoPoints ==
    (ran.fit.called
       /\ (ran.fit.selected = None \/ Val(ran.fit.selected) < 2)) =>
        /\ ~ran.fit.fitted
        /\ win.gauss_params = None
        /\ win.best_k = None
        /\ ran.refresh.called
        /\ ran.exc = "none"

C9_Witness ==
    /\ ran.fit.called
    /\ ran.fit.auto
    /\ ran.fit.selected = Some(1)
    /\ win.gauss_params = None
    /\ ran.refresh.called

\* C10: a checked trace whose first bleaching index is 0 contributes no frame
\* to the pooled E/S, DD and DA, adds nothing to n_points, and is counted in
\* n_samples.
BleachedAtOnce(i) == traces[i].first_bleach = Some(0)

C10_BleachedAtOnceCountsAsSample ==
    ran.agg.done =>
        LET rest == SelectSeq(CheckedSeq, LAMBDA i : ~BleachedAtOnce(i))
        IN  /\ \A k \in 1..Len(CheckedSeq) :
                   BleachedAtOnce(CheckedSeq[k]) =>
                       /\ ran.agg.lengths[k] = 0
                       /\ ran.agg.DD[k] = <<>>
                       /\ ran.agg.DA[k] = <<>>
            /\ win.n_samples = Some(Cardinality(CheckedSet))
            /\ win.n_points =
                   Some(Len(trim_ES(PooledE(rest), PooledS(rest)).E))
            /\ win.E_un = Some(trim_ES(PooledE(rest), PooledS(rest)).E)

C10_Witness ==
    /\ ran.agg.done
    /\ \E i \in CheckedSet : BleachedAtOnce(i)
    /\ \E i \in CheckedSet : ~BleachedAtOnce(i)
    /\ win.n_samples = Some(2)
    /\ Val(win.n_points) > 0

\* C11: a completed pass with no trace checked leaves n_samples = 0 and
\* n_points = 0 (in the window and in data.histData) and the corrected E and
\* S unset.
C11_NoneCheckedYieldsEmpty ==
    (ran.agg.done /\ CheckedSet = {}) =>
        /\ win.n_samples = Some(0)
        /\ win.n_points = Some(0)
        /\ histData.n_samples = Some(0)
        /\ histData.n_points = Some(0)
        /\ win.E = None
        /\ win.S = None

\* a pass over no checked trace that follows a pass which had corrected a
\* sample (its factors are still there)
C11_Witness ==
    /\ ran.agg.done
    /\ CheckedSet = {}
    /\ ran.agg.checkedTraces = <<>>
    /\ IsSet(win.beta)
    /\ win.E = None

\* the window's attributes apart from the last-fitted mixture
PipelineState(w) == [w EXCEPT !.gauss_params = None, !.best_k = None]

\* what the last pass would have left in a window that had kept nothing
\* from earlier passes
FromScratch ==
    getHistogramData([World EXCEPT !.win = InitWin],
                     IF ran.agg.max_frames = None THEN "all" ELSE "spinbox",
                     IF ran.agg.max_frames = None THEN 1
                     ELSE Val(ran.agg.max_frames),
                     NoFault).win

\* after a completed pass the attributes, the mixture apart, are those of a
\* pass computed from scratch
RecomputedFromScratch ==
    ran.agg.done => PipelineState(win) = PipelineState(FromScratch)

\* C12 (the mixture's frame): a step in which fitGaussians did not run
\* (refreshPlot, getHistogramData, checkAll/unCheckAll, exportHistogramData)
\* leaves gauss_params and best_k unchanged.
C12_MixtureChangedOnlyByFit ==
    [][ ~ran'.fit.called =>
            /\ win'.gauss_params = win.gauss_params
            /\ win'.best_k = win.best_k ]_vars

\* a refresh without a fit that left a fitted mixture in place
C12_Witness ==
    /\ ran.refresh.called
    /\ ~ran.fit.called
    /\ ran.agg.done
    /\ IsSet(win.gauss_params)
    /\ IsSet(win.best_k)

\* C12 as stated: the mixture is changed only by fitGaussians, and it is the
\* only state kept across refreshes: everything else a pass has left, in the
\* state any step starts from, is computed from scratch.
C12_Original ==
    [][ /\ (~ran'.fit.called =>
               /\ win'.gauss_params = win.gauss_params
               /\ win'.best_k = win.best_k)
        /\ RecomputedFromScratch ]_vars

\* the parameter tuples the inspector can hand to plotAll now
Tuples == {returnInspectorValues(sliders, sw) : sw \in InspectorKinds}

\* C13 as stated: every tuple has raw bandwidth in [10,100], resolution in
\* [10,100], n_colors in [1,20] and point_alpha in [0,20].
C13_Original ==
    \A t \in Tuples :
        /\ t.bandwidth \in 10..100
        /\ t.resolution \in 10..100
        /\ t.n_colors \in 1..20
        /\ t.pts_alpha \in 0..20

\* C13 (amended): every tuple has raw bandwidth in [1,20], resolution in
\* [10,100], n_colors in [1,20] and point_alpha in [0,20], wherever the
\* sliders are moved.
C13_SliderRanges ==
    \A t \in Tuples :
        /\ t.bandwidth \in 1..20
        /\ t.resolution \in 10..100
        /\ t.n_colors \in 1..20
        /\ t.pts_alpha \in 0..20

\* every slider moved away from its initial value to an end of its range
C13_Witness ==
    /\ sliders.smoothingSlider = 20
    /\ sliders.resolutionSlider = 100
    /\ sliders.colorSlider = 1
    /\ sliders.pointAlphaSlider = 0

\* the samples the histograms, the contour and the scatter on the axes were
\* drawn from
DrawnFrom ==
    { a[2] : a \in { b \in canvas.ax_top \cup canvas.ax_ctr \cup canvas.ax_rgt :
                        b[1] \in {"hist", "contour", "scatter"} } }

\* C14: after a refreshPlot in which nothing was raised, if E is set and S
\* is unset the apply-corrections box is unchecked and every panel drawn
\* was drawn from the uncorrected sample; if S is set, or E is unset, the box
\* holds what it held when the refresh began.
C14_UncheckedWithoutCorrectedS ==
    (ran.refresh.called /\ ran.raised = "none") =>
        /\ (IsSet(win.E) /\ ~IsSet(win.S) =>
               /\ ui.applyCorrectionsCheckBox = FALSE
               /\ DrawnFrom \subseteq {"un"})
        /\ (IsSet(win.S) \/ ~IsSet(win.E) =>
               ui.applyCorrectionsCheckBox = ran.refresh.corrected)

\* a refresh entered with the box checked that unchecked it and drew the
\* uncorrected histogram
C14_Witness ==
    /\ ran.refresh.called
    /\ ran.raised = "none"
    /\ IsSet(win.E)
    /\ ~IsSet(win.S)
    /\ ran.refresh.corrected
    /\ ~ui.applyCorrectionsCheckBox
    /\ DrawnFrom = {"un"}

====
